---- MODULE Spec2Model ----
(***************************************************************************)
(* DiskArchiver (src/src/main.rs): the per-drive lifecycle engine, the UI  *)
(* naming callbacks, the presence poller, and the parsers, the streaming   *)
(* copier and the actuator they call.                                      *)
(*                                                                         *)
(* Text is a sequence of one-character strings; the nom combinators the    *)
(* parsers are built from are operators on such sequences.                 *)
(***************************************************************************)
EXTENDS Naturals, Sequences, FiniteSets

\* ------------------------------------------------------------------ text

NL == "\n"

Digits == {"0", "1", "2", "3", "4", "5", "6", "7", "8", "9"}

DigitVal(c) ==
    CASE c = "0" -> 0 [] c = "1" -> 1 [] c = "2" -> 2 [] c = "3" -> 3
      [] c = "4" -> 4 [] c = "5" -> 5 [] c = "6" -> 6 [] c = "7" -> 7
      [] c = "8" -> 8 [] c = "9" -> 9

Drop(s, n) == SubSeq(s, n + 1, Len(s))

Take(s, n) == SubSeq(s, 1, n)

\* str::starts_with: pat is matched character by character at the start of s.
RECURSIVE starts_with(_, _)
starts_with(s, pat) ==
    IF pat = << >> THEN TRUE
    ELSE IF s = << >> THEN FALSE
    ELSE Head(s) = Head(pat) /\ starts_with(Tail(s), Tail(pat))

\* Index of the first occurrence of character c in s, 0 when there is none.
RECURSIVE IndexOf(_, _, _)
IndexOf(s, c, i) ==
    IF i > Len(s) THEN 0
    ELSE IF s[i] = c THEN i
    ELSE IndexOf(s, c, i + 1)

ParseErr == [ok |-> FALSE]

\* nom take_until(c): everything before the first c; an error without one.
take_until(c, s) ==
    LET i == IndexOf(s, c, 1)
    IN  IF i = 0 THEN ParseErr
        ELSE [ok |-> TRUE, out |-> Take(s, i - 1), rest |-> Drop(s, i - 1)]

\* nom terminated(take_until(c), char(c)): the text before the first c, and
\* the input after that c.
terminated_take_until(c, s) ==
    LET r == take_until(c, s)
    IN  IF ~r.ok THEN ParseErr
        ELSE [ok |-> TRUE, out |-> r.out, rest |-> Tail(r.rest)]

\* nom tag(lit): the input after lit when the input starts with lit.
tag(lit, s) ==
    IF starts_with(s, lit)
    THEN [ok |-> TRUE, out |-> lit, rest |-> Drop(s, Len(lit))]
    ELSE ParseErr

RECURSIVE DigitsValue(_, _)
DigitsValue(s, acc) ==
    IF s = << >> THEN acc
    ELSE DigitsValue(Tail(s), acc * 10 + DigitVal(Head(s)))

\* str::parse::<usize>: an optional '+', then one or more decimal digits.
parse_usize(s) ==
    LET body == IF s # << >> /\ Head(s) = "+" THEN Tail(s) ELSE s
    IN  IF body # << >> /\ \A i \in 1..Len(body) : body[i] \in Digits
        THEN [ok |-> TRUE, value |-> DigitsValue(body, 0)]
        ELSE ParseErr

RECURSIVE Concat(_)
Concat(ss) == IF ss = << >> THEN << >> ELSE Head(ss) \o Concat(Tail(ss))


\* ------------------------------------------------- external command output

\* What Command::output() followed by str::from_utf8 can give: the command
\* could not be launched, its output is not UTF-8, or a text.
LaunchFailed == [kind |-> "LaunchFail"]

NotUtf8 == [kind |-> "NotUtf8"]

TextOut(t) == [kind |-> "Text", text |-> t]

Err(e) == [kind |-> "Err", err |-> e]

\* ------------------------------------------------ volume metadata parser

\* n consecutive terminated(take_until("\n"), char('\n')) on s.
RECURSIVE ReadLines(_, _, _)
ReadLines(s, n, acc) ==
    IF n = 0 THEN [ok |-> TRUE, lines |-> acc, rest |-> s]
    ELSE LET r == terminated_take_until(NL, s)
         IN  IF ~r.ok THEN ParseErr
             ELSE ReadLines(r.rest, n - 1, Append(acc, r.out))

VolumeIdTag == <<"V","o","l","u","m","e"," ","i","d",":"," ">>

BlockSizeTag == <<"L","o","g","i","c","a","l"," ","b","l","o","c","k"," ","s","i","z","e"," ","i","s",":"," ">>

VolumeSizeTag == <<"V","o","l","u","m","e"," ","s","i","z","e"," ","i","s",":"," ">>

IsoInfoLines == 14

VolumeIdLine == 3

BlockSizeLine == 13

VolumeSizeLine == 14

\* parse_iso_info: "Ok" with the ISOInfo, "Err" for a nom error, "Panic" where
\* an unwrap() of str::parse fails.  The values of the bounded inputs are far
\* below the machine word, so number_of_blocks * block_size does not overflow.
parse_iso_info(input) ==
    LET ls == ReadLines(input, IsoInfoLines, << >>)
    IN  IF ~ls.ok THEN [kind |-> "Err"]
        ELSE
        LET volume_id == tag(VolumeIdTag, ls.lines[VolumeIdLine])
            block_size_t == tag(BlockSizeTag, ls.lines[BlockSizeLine])
            number_of_blocks_t == tag(VolumeSizeTag, ls.lines[VolumeSizeLine])
        IN  IF ~volume_id.ok THEN [kind |-> "Err"]
            ELSE IF ~block_size_t.ok THEN [kind |-> "Err"]
            ELSE
            LET block_size == parse_usize(block_size_t.rest)
            IN  IF ~block_size.ok THEN [kind |-> "Panic"]
                ELSE IF ~number_of_blocks_t.ok THEN [kind |-> "Err"]
                ELSE
                LET number_of_blocks == parse_usize(number_of_blocks_t.rest)
                IN  IF ~number_of_blocks.ok THEN [kind |-> "Panic"]
                    ELSE [kind |-> "Ok",
                          info |-> [name |-> volume_id.rest,
                                    block_size |-> block_size.value,
                                    length |-> number_of_blocks.value * block_size.value]]

\* fetch_iso_info applied to what the isoinfo command gave.
fetch_iso_info(out) ==
    IF out.kind = "LaunchFail" THEN Err("LaunchFail")
    ELSE IF out.kind = "NotUtf8" THEN Err("ConvertToUTF")
    ELSE LET r == parse_iso_info(out.text)
         IN  IF r.kind = "Err" THEN Err("Parse") ELSE r

\* ------------------------------------------------------- presence parser

\* parse_bulk_id_list: many0 of (text up to ':', text up to '\n'); many0 stops
\* at the first line that does not parse and never fails.
RECURSIVE parse_bulk_id_list(_)
parse_bulk_id_list(input) ==
    LET p == terminated_take_until(":", input)
    IN  IF ~p.ok THEN << >>
        ELSE LET q == terminated_take_until(NL, p.rest)
             IN  IF ~q.ok THEN << >>
                 ELSE << <<p.out, q.out>> >> \o parse_bulk_id_list(q.rest)


\* ------------------------------------------------------------- actuator

AttemptOutcomes == {"success", "failure", "launch_fail"}

EjectAttempts == 5

\* What each of the attempts of one call would report, were it issued.
AttemptScripts == [1..EjectAttempts -> AttemptOutcomes]

Ok(v) == [kind |-> "Ok", value |-> v]

\* attempt_eject / attempt_close: Err when the command cannot be launched,
\* otherwise Ok(status.success()).
attempt_eject(outcome) ==
    IF outcome = "launch_fail" THEN Err("LaunchFail") ELSE Ok(outcome = "success")

attempt_close(outcome) ==
    IF outcome = "launch_fail" THEN Err("LaunchFail") ELSE Ok(outcome = "success")

\* for _ in 0..5 { if attempt_eject(drive)? { worked = true; break; } } Ok(worked)
RECURSIVE eject_loop(_, _, _)
eject_loop(script, i, issued) ==
    IF i > EjectAttempts THEN [result |-> Ok(FALSE), issued |-> issued]
    ELSE LET r == attempt_eject(script[i])
             now == Append(issued, "eject")
         IN  IF r.kind = "Err" THEN [result |-> r, issued |-> now]
             ELSE IF r.value THEN [result |-> Ok(TRUE), issued |-> now]
             ELSE eject_loop(script, i + 1, now)

\* Fault injection: eject_drive_disk without the break after a success.
RECURSIVE eject_loop_no_break(_, _, _, _)
eject_loop_no_break(script, i, issued, worked) ==
    IF i > EjectAttempts THEN [result |-> Ok(worked), issued |-> issued]
    ELSE LET r == attempt_eject(script[i])
             now == Append(issued, "eject")
         IN  IF r.kind = "Err" THEN [result |-> r, issued |-> now]
             ELSE eject_loop_no_break(script, i + 1, now, worked \/ r.value)

eject_drive_disk_no_break(script) == eject_loop_no_break(script, 1, << >>, FALSE)

\* eject_drive_disk: the result, and the commands issued, in order.
eject_drive_disk(script) == eject_loop(script, 1, << >>)

RECURSIVE close_loop(_, _, _)
close_loop(script, i, issued) ==
    IF i > EjectAttempts THEN [result |-> Ok(FALSE), issued |-> issued]
    ELSE LET r == attempt_close(script[i])
             now == Append(issued, "eject -t")
         IN  IF r.kind = "Err" THEN [result |-> r, issued |-> now]
             ELSE IF r.value THEN [result |-> Ok(TRUE), issued |-> now]
             ELSE close_loop(script, i + 1, now)

\* close_drive_disk: the result, and the commands issued, in order.
close_drive_disk(script) == close_loop(script, 1, << >>)

\* Every result a call of eject_drive_disk can return.
EjectResults == { eject_drive_disk(sc).result : sc \in AttemptScripts }

\* ------------------------------------------------------- inventory parser

\* The characters nom's multispace0 skips.
Whitespace == {" ", "\t", "\r", NL}

\* nom multispace0: the input after its leading whitespace; it never fails.
RECURSIVE multispace0(_)
multispace0(s) ==
    IF s # << >> /\ Head(s) \in Whitespace THEN multispace0(Tail(s)) ELSE s

\* One element of the many0 of parse_disk_drive_list: '[' id ']', whitespace,
\* the type token up to a space, whitespace, the text up to the first '/',
\* and from there the text up to the newline.
parse_disk_drive_line(s) ==
    IF s = << >> \/ Head(s) # "[" THEN ParseErr
    ELSE
    LET id == terminated_take_until("]", Tail(s))
    IN  IF ~id.ok THEN ParseErr
        ELSE
        LET type == take_until(" ", multispace0(id.rest))
        IN  IF ~type.ok THEN ParseErr
            ELSE
            LET skipped == take_until("/", multispace0(type.rest))
            IN  IF ~skipped.ok THEN ParseErr
                ELSE
                LET path == terminated_take_until(NL, skipped.rest)
                IN  IF ~path.ok THEN ParseErr
                    ELSE [ok |-> TRUE, rest |-> path.rest,
                          out |-> <<id.out, type.out, skipped.out, path.out>>]

\* many0 of that element: the lines parsed up to the first one that does not
\* parse; it never fails.
RECURSIVE parse_disk_drive_lines(_)
parse_disk_drive_lines(input) ==
    LET r == parse_disk_drive_line(input)
    IN  IF ~r.ok THEN << >>
        ELSE <<r.out>> \o parse_disk_drive_lines(r.rest)

CdDvd == <<"c","d","/","d","v","d">>

\* DiskDrive { file, has_disk: AtomicBool::new(false),
\*             status_message: Mutex::new(DriveStatus::Setup) }
DiskDrive(f) ==
    [file |-> f, has_disk |-> FALSE, status_message |-> [tag |-> "Setup", name |-> << >>]]

\* Fault injection: the loop of parse_disk_drive_list without its test of the
\* type token.
RECURSIVE drives_of_lines_unfiltered(_)
drives_of_lines_unfiltered(lines) ==
    IF lines = << >> THEN << >>
    ELSE <<DiskDrive(Take(Head(lines)[4], Len(Head(lines)[4]) - 1))>>
           \o drives_of_lines_unfiltered(Tail(lines))

\* for line in lines { if line.2 == "cd/dvd" { ...; drive.file.remove(len - 1);
\* drives.push(drive) } }
RECURSIVE drives_of_lines(_)
drives_of_lines(lines) ==
    IF lines = << >> THEN << >>
    ELSE (IF Head(lines)[2] = CdDvd
          THEN <<DiskDrive(Take(Head(lines)[4], Len(Head(lines)[4]) - 1))>>
          ELSE << >>) \o drives_of_lines(Tail(lines))

\* Fault injection: parse_disk_drive_list making a handle of every line.
parse_disk_drive_list_unfiltered(input) ==
    drives_of_lines_unfiltered(parse_disk_drive_lines(input))

\* parse_disk_drive_list: the handles of the cd/dvd lines, in line order.
parse_disk_drive_list(input) == drives_of_lines(parse_disk_drive_lines(input))

\* list_disk_drives applied to what the lsscsi command gave; the parser never
\* fails, so Parse is never returned.
list_disk_drives(out) ==
    IF out.kind = "LaunchFail" THEN Err("LaunchFail")
    ELSE IF out.kind = "NotUtf8" THEN Err("ConvertToUTF")
    ELSE Ok(parse_disk_drive_list(out.text))

\* --------------------------------------------------------------- drives

\* Identities of the drive handles list_disk_drives may return at startup.
AllDrives == {"sr0", "sr1"}

\* DiskDrive.file of each drive.
file(d) ==
    IF d = "sr0" THEN <<"/","d","e","v","/","s","r","0">>
    ELSE <<"/","d","e","v","/","s","r","1">>

\* DriveStatus: a tag, and the name carried by Saving.
St(t) == [tag |-> t, name |-> << >>]

Saving(n) == [tag |-> "Saving", name |-> n]

NoInfo == [name |-> << >>, block_size |-> 0, length |-> 0]

NoOutput == [kind |-> "None"]

\* ------------------------------------------------ inputs of the environment

FillerLine == <<"x">>

\* An isoinfo output of n lines, with the given lines 3, 13 and 14.
IsoText(n, l3, l13, l14) ==
    Concat([i \in 1..n |->
              (IF i = VolumeIdLine THEN l3
               ELSE IF i = BlockSizeLine THEN l13
               ELSE IF i = VolumeSizeLine THEN l14
               ELSE FillerLine) \o <<NL>>])

GoodL3 == VolumeIdTag \o <<"F","O","O">>

GoodL13 == BlockSizeTag \o <<"2">>

GoodL14 == VolumeSizeTag \o <<"3">>

\* The isoinfo outcomes an engine cycle is run against: a launch failure, a
\* non-UTF-8 output, a well-formed descriptor, and descriptors that are short
\* of a line, lack a literal prefix, or carry a non-numeric field.
IsoOutputs ==
    { LaunchFailed,
      NotUtf8,
      TextOut(IsoText(14, GoodL3, GoodL13, GoodL14)),
      TextOut(IsoText(15, GoodL3, GoodL13, GoodL14)),
      TextOut(IsoText(14, GoodL3, BlockSizeTag \o <<"+","2">>, VolumeSizeTag \o <<"0">>)),
      TextOut(IsoText(13, GoodL3, GoodL13, GoodL14)),
      TextOut(IsoText(13, GoodL3, GoodL13, GoodL14) \o GoodL14),
      TextOut(IsoText(14, <<"F","O","O">>, GoodL13, GoodL14)),
      TextOut(IsoText(14, GoodL3, <<"2">>, GoodL14)),
      TextOut(IsoText(14, GoodL3, GoodL13, <<"3">>)),
      TextOut(IsoText(14, GoodL3, BlockSizeTag \o <<"x">>, GoodL14)),
      TextOut(IsoText(14, GoodL3, BlockSizeTag \o <<"-","2">>, GoodL14)),
      TextOut(IsoText(14, GoodL3, BlockSizeTag \o <<"x">>, <<"3">>)),
      TextOut(IsoText(14, GoodL3, GoodL13, VolumeSizeTag)),
      TextOut(IsoText(14, GoodL3, GoodL13, VolumeSizeTag \o <<"3"," ">>)) }

BlkidLine(path) == path \o <<":"," ","x",NL>>

\* The blkid outcomes a poll of the running system is run against.
BlkidOutputs ==
    { LaunchFailed,
      NotUtf8,
      TextOut(<< >>),
      TextOut(BlkidLine(file("sr0"))),
      TextOut(BlkidLine(file("sr1"))),
      TextOut(BlkidLine(file("sr0")) \o BlkidLine(file("sr1"))) }

\* Most lines of a blkid output the presence parser is run against.
MaxBlkidLines == 3

\* The lines such an output is made of: the two drives, a path that is a
\* prefix of both, a path longer than a drive's, and a line without ':'.
BlkidLines ==
    { BlkidLine(file("sr0")),
      BlkidLine(file("sr1")),
      BlkidLine(<<"/","d","e","v","/","s","r">>),
      BlkidLine(<<"/","d","e","v","/","s","r","0","0">>),
      <<"j","u","n","k",NL>> }

BlkidTexts ==
    { LaunchFailed, NotUtf8 } \cup
    { TextOut(Concat(ls)) :
        ls \in UNION { [1..n -> BlkidLines] : n \in 0..MaxBlkidLines } }

\* What the operator may type into a drive's name field.
TypedNames == { <<"x">> }

\* Result of copy_disk_to_iso as the engine sees it.
CopyResults == {"Ok", "Read", "Write"}

\* Most engine-to-UI callbacks in flight at once.
MaxQueue == 1

\* ----------------------------------------------------------------- state

VARIABLES
    drives,          \* the drive handles found at startup
    status_message,  \* DiskDrive.status_message of each drive
    has_disk,        \* DiskDrive.has_disk of each drive
    pc,              \* where each drive's engine thread is
    output,          \* engine: the isoinfo output in hand
    info,            \* engine: the ISOInfo of the cycle
    name,            \* engine: the name bound by the Saving(name) match arm
    target,          \* engine: whether the staged temporary file exists
    ready_checked,   \* UI: the "Settings ready" checkbox of each drive
    text_content,    \* UI: the "File name" edit view of each drive
    layers,          \* UI: the overwrite dialogs on screen, bottom to top
    cb_sink,         \* callbacks the engines sent to the UI, not yet run
    files,           \* names that exist in the working directory
    hist,            \* per drive, what has happened in the current cycle
    last_poll,       \* the blkid output of the latest successful poll
    seen_disk,       \* per drive, whether has_disk has ever been set true
    poll_result,     \* what the latest call of check_disks_in_drives returned
    status_guard,    \* per drive, the thread holding the status mutex's guard
    inventory,       \* startup: the lsscsi output and the handles made of it
    copier,          \* one run of copy_disk_to_iso, step by step
    actuator         \* one press of a drive's Eject or Close button

vars == <<drives, status_message, has_disk, pc, output, info, name, target,
          ready_checked, text_content, layers, cb_sink, files, hist, last_poll,
          seen_disk, poll_result, status_guard, inventory, copier, actuator>>

\* The handles, the startup inventory and the state of the copier and of the
\* actuator buttons, which the engines, the naming callbacks and the poller
\* do not touch.
aside == <<drives, inventory, copier, actuator, status_guard>>

\* The same without the holders of the status mutexes, for the steps that
\* end with a guard being dropped.
outside == <<drives, inventory, copier, actuator>>

pollerHist == <<last_poll, seen_disk, poll_result>>

engineLocals == <<output, info, name>>

uiVars == <<ready_checked, text_content, layers>>

NoHist ==
    [fetch |-> "none", copies |-> 0, copy |-> "none", renames |-> 0,
     renamed_to |-> << >>, ejects |-> 0, accepted |-> FALSE, checked |-> FALSE]

NoPoll == [kind |-> "None"]

IdleCopier == [pc |-> "idle"]

IdleActuator == [pc |-> "idle"]

\* The startup inventory once build_main_menu has run.
InventoryDone == [pc |-> "running"]

\* The state once build_main_menu has run for the handles ds.
InitDrives(ds) ==
    /\ drives = ds
    /\ status_message = [d \in ds |-> St("Setup")]
    /\ has_disk = [d \in ds |-> FALSE]
    /\ pc = [d \in ds |-> "start"]
    /\ output = [d \in ds |-> NoOutput]
    /\ info = [d \in ds |-> NoInfo]
    /\ name = [d \in ds |-> << >>]
    /\ target = [d \in ds |-> FALSE]
    /\ ready_checked = [d \in ds |-> FALSE]
    /\ text_content = [d \in ds |-> << >>]
    /\ layers = << >>
    /\ cb_sink = << >>
    /\ files = {}
    /\ hist = [d \in ds |-> NoHist]
    /\ last_poll = NoPoll
    /\ seen_disk = [d \in ds |-> FALSE]
    /\ poll_result = "None"
    /\ status_guard = [d \in ds |-> "none"]

Init ==
    /\ InitDrives({"sr0"})
    /\ inventory = InventoryDone
    /\ copier = IdleCopier
    /\ actuator = IdleActuator


\* ---------------------------------------------------- the drive's engine
\* The closure spawn_drive_thread runs, one step per shared-state access or
\* external call.  A failed unwrap() ends the thread: pc = "panicked".

SetStatus(d, st) == status_message' = [status_message EXCEPT ![d] = st]

Goto(d, l) == pc' = [pc EXCEPT ![d] = l]

SetHist(d, h) == hist' = [hist EXCEPT ![d] = h]

\* The guard of drive d's status mutex is dropped.
DropGuard(d) == status_guard' = [status_guard EXCEPT ![d] = "none"]

\* Where the engine is about to run a statement that locks the status mutex.
LockPcs ==
    {"start", "set_copying", "set_waiting", "poll_name", "read_error",
     "write_error", "set_done"}

\* drive.status_message.lock().unwrap() in the engine: the call returns once
\* no other thread holds the guard.
EngineLock(d) ==
    /\ pc[d] \in LockPcs
    /\ status_guard[d] = "none"
    /\ status_guard' = [status_guard EXCEPT ![d] = "engine"]
    /\ UNCHANGED <<status_message, has_disk, pc, engineLocals, target, uiVars,
                   cb_sink, files, hist, pollerHist, outside>>

\* *drive.status_message.lock().unwrap() = DriveStatus::NoDisk
EngineSetNoDisk(d) ==
    /\ status_guard[d] = "engine"
    /\ pc[d] = "start"
    /\ SetStatus(d, St("NoDisk"))
    /\ SetHist(d, NoHist)
    /\ Goto(d, "wait_disk")
    /\ DropGuard(d)
    /\ UNCHANGED <<has_disk, engineLocals, target, uiVars, cb_sink, files, pollerHist, outside>>

\* Fault injection: EngineWaitForDisk with the test of has_disk inverted.
EngineWaitForDiskInverted(d) ==
    /\ pc[d] = "wait_disk"
    /\ IF ~has_disk[d] THEN Goto(d, "fetch") ELSE UNCHANGED pc
    /\ UNCHANGED <<status_message, has_disk, engineLocals, target, uiVars,
                   cb_sink, files, hist, pollerHist, aside>>

\* while !drive.has_disk.load(Relaxed) { sleep }
EngineWaitForDisk(d) ==
    /\ pc[d] = "wait_disk"
    /\ IF has_disk[d] THEN Goto(d, "fetch") ELSE UNCHANGED pc
    /\ UNCHANGED <<status_message, has_disk, engineLocals, target, uiVars,
                   cb_sink, files, hist, pollerHist, aside>>

\* fetch_iso_info: the isoinfo command is run
EngineRunIsoinfo(d) ==
    /\ pc[d] = "fetch"
    /\ \E o \in IsoOutputs : output' = [output EXCEPT ![d] = o]
    /\ Goto(d, "parse")
    /\ UNCHANGED <<status_message, has_disk, info, name, target, uiVars,
                   cb_sink, files, hist, pollerHist, aside>>

\* What fetch_iso_info makes of each output the isoinfo command can give.
IsoInfoOf == [o \in IsoOutputs |-> fetch_iso_info(o)]

\* fetch_iso_info: its output is decoded and parsed; if let Ok(info) = ...
EngineFetchIsoInfo(d) ==
    /\ pc[d] = "parse"
    /\ LET r == IsoInfoOf[output[d]]
       IN  /\ info' = [info EXCEPT ![d] = IF r.kind = "Ok" THEN r.info ELSE NoInfo]
           /\ Goto(d, CASE r.kind = "Ok" -> "set_copying"
                        [] r.kind = "Err" -> "eject"
                        [] r.kind = "Panic" -> "panicked")
           /\ SetHist(d, [hist[d] EXCEPT !.fetch = r.kind])
    /\ output' = [output EXCEPT ![d] = NoOutput]
    /\ UNCHANGED <<status_message, has_disk, name, target, uiVars, cb_sink,
                   files, pollerHist, aside>>

\* *drive.status_message.lock().unwrap() = DriveStatus::Copying
EngineSetCopying(d) ==
    /\ status_guard[d] = "engine"
    /\ pc[d] = "set_copying"
    /\ SetStatus(d, St("Copying"))
    /\ Goto(d, "send_reset")
    /\ DropGuard(d)
    /\ UNCHANGED <<has_disk, engineLocals, target, uiVars, cb_sink, files,
                   hist, pollerHist, outside>>

\* format!("{}.iso", info.name)
default_iso_name(i) == i.name \o <<".","i","s","o">>

\* cb.send(...): the reset of the ready box and the name field is queued
EngineSendReset(d) ==
    /\ pc[d] = "send_reset"
    /\ Len(cb_sink) < MaxQueue
    /\ cb_sink' = Append(cb_sink, [drive |-> d, default_iso_name |-> default_iso_name(info[d])])
    /\ info' = [info EXCEPT ![d] = NoInfo]
    /\ Goto(d, "create_target")
    /\ UNCHANGED <<status_message, has_disk, output, name, target, uiVars,
                   files, hist, pollerHist, aside>>

\* PersistableTempFile::new_in("./").unwrap()
EngineCreateTarget(d) ==
    /\ pc[d] = "create_target"
    /\ \E ok \in BOOLEAN :
         /\ target' = [target EXCEPT ![d] = ok]
         /\ Goto(d, IF ok THEN "open_source" ELSE "panicked")
    /\ UNCHANGED <<status_message, has_disk, engineLocals, uiVars, cb_sink,
                   files, hist, pollerHist, aside>>

\* fs::File::open(&drive.file).unwrap(); a panic drops the temporary file
EngineOpenSource(d) ==
    /\ pc[d] = "open_source"
    /\ \E ok \in BOOLEAN :
         /\ target' = [target EXCEPT ![d] = ok]
         /\ Goto(d, IF ok THEN "copy" ELSE "panicked")
    /\ UNCHANGED <<status_message, has_disk, engineLocals, uiVars, cb_sink,
                   files, hist, pollerHist, aside>>

\* match copy_disk_to_iso(...)
EngineCopy(d) ==
    /\ pc[d] = "copy"
    /\ \E r \in CopyResults :
         /\ SetHist(d, [hist[d] EXCEPT !.copies = @ + 1, !.copy = r])
         /\ Goto(d, CASE r = "Ok" -> "set_waiting"
                        [] r = "Read" -> "read_error"
                        [] r = "Write" -> "write_error")
    /\ UNCHANGED <<status_message, has_disk, engineLocals, target, uiVars,
                   cb_sink, files, pollerHist, aside>>

\* Fault injection: the engine binding the guard to a variable that lives on
\* through the naming loop, instead of dropping it with the statement.
EngineSetWaitingForNameKeepsGuard(d) ==
    /\ status_guard[d] = "engine"
    /\ pc[d] = "set_waiting"
    /\ SetStatus(d, St("WaitingForName"))
    /\ Goto(d, "poll_name")
    /\ UNCHANGED status_guard
    /\ UNCHANGED <<has_disk, engineLocals, target, uiVars, cb_sink, files,
                   hist, pollerHist, outside>>

\* Ok(()) => *drive.status_message.lock().unwrap() = DriveStatus::WaitingForName
EngineSetWaitingForName(d) ==
    /\ status_guard[d] = "engine"
    /\ pc[d] = "set_waiting"
    /\ SetStatus(d, St("WaitingForName"))
    /\ Goto(d, "poll_name")
    /\ DropGuard(d)
    /\ UNCHANGED <<has_disk, engineLocals, target, uiVars, cb_sink, files,
                   hist, pollerHist, outside>>

\* Fault injection: the naming loop giving up, and dropping the staged file,
\* when the disc has been taken out.
EnginePollNameAbortsOnRemoval(d) ==
    /\ status_guard[d] = "engine"
    /\ pc[d] = "poll_name"
    /\ IF ~has_disk[d]
       THEN /\ target' = [target EXCEPT ![d] = FALSE]
            /\ Goto(d, "set_done")
            /\ UNCHANGED name
       ELSE /\ IF status_message[d].tag = "Saving"
               THEN /\ name' = [name EXCEPT ![d] = status_message[d].name]
                    /\ Goto(d, "persist")
               ELSE UNCHANGED <<name, pc>>
            /\ UNCHANGED target
    /\ DropGuard(d)
    /\ UNCHANGED <<status_message, has_disk, output, info, uiVars,
                   cb_sink, files, hist, pollerHist, outside>>

\* the "Wait for name" loop: the status is cloned under the lock and matched
EnginePollName(d) ==
    /\ status_guard[d] = "engine"
    /\ pc[d] = "poll_name"
    /\ IF status_message[d].tag = "Saving"
       THEN /\ name' = [name EXCEPT ![d] = status_message[d].name]
            /\ Goto(d, "persist")
       ELSE UNCHANGED <<name, pc>>
    /\ DropGuard(d)
    /\ UNCHANGED <<status_message, has_disk, output, info, target, uiVars,
                   cb_sink, files, hist, pollerHist, outside>>

\* Whether a rename to n can succeed at all: not to the empty path.
CanPersist(n) == n # << >>

\* Fault injection: EnginePersist without its break, so that the naming loop
\* polls again after the rename.
EnginePersistNoBreak(d) ==
    /\ pc[d] = "persist"
    /\ CanPersist(name[d])
    /\ files' = files \cup {name[d]}
    /\ SetHist(d, [hist[d] EXCEPT !.renames = @ + 1, !.renamed_to = name[d]])
    /\ Goto(d, "poll_name")
    /\ UNCHANGED <<status_message, has_disk, engineLocals, target, uiVars,
                   cb_sink, pollerHist, aside>>

\* target.persist_by_rename(name).unwrap(); break
EnginePersist(d) ==
    /\ pc[d] = "persist"
    /\ \E ok \in BOOLEAN :
         /\ ok => CanPersist(name[d])
         /\ IF ok
            THEN /\ files' = files \cup {name[d]}
                 /\ SetHist(d, [hist[d] EXCEPT !.renames = @ + 1,
                                               !.renamed_to = name[d]])
                 /\ Goto(d, "set_done")
            ELSE /\ Goto(d, "panicked")
                 /\ UNCHANGED <<files, hist>>
    /\ target' = [target EXCEPT ![d] = FALSE]
    /\ name' = [name EXCEPT ![d] = << >>]
    /\ UNCHANGED <<status_message, has_disk, output, info, uiVars, cb_sink,
                   pollerHist, aside>>

\* Err(error) => status = CopyReadError | CopyWriteError; the temporary file
\* is dropped at the end of the block
EngineSetCopyError(d) ==
    /\ status_guard[d] = "engine"
    /\ pc[d] \in {"read_error", "write_error"}
    /\ SetStatus(d, IF pc[d] = "read_error" THEN St("CopyReadError")
                    ELSE St("CopyWriteError"))
    /\ target' = [target EXCEPT ![d] = FALSE]
    /\ Goto(d, "set_done")
    /\ DropGuard(d)
    /\ UNCHANGED <<has_disk, engineLocals, uiVars, cb_sink, files, hist, pollerHist, outside>>


\* Fault injection: EngineEject leaving the cycle's status alone when the
\* eject returns an error.
EngineEjectSkipsDone(d) ==
    /\ pc[d] = "eject"
    /\ \E r \in EjectResults :
         /\ SetHist(d, [hist[d] EXCEPT !.ejects = @ + 1])
         /\ Goto(d, IF r.kind = "Err" THEN "wait_removed" ELSE "set_done")
    /\ UNCHANGED <<status_message, has_disk, engineLocals, target, uiVars,
                   cb_sink, files, pollerHist, aside>>

\* if eject_drive_disk(&drive.file).is_err() { }
EngineEject(d) ==
    /\ pc[d] = "eject"
    /\ \E r \in EjectResults :
         SetHist(d, [hist[d] EXCEPT !.ejects = @ + 1])
    /\ Goto(d, "set_done")
    /\ UNCHANGED <<status_message, has_disk, engineLocals, target, uiVars,
                   cb_sink, files, pollerHist, aside>>

\* *drive.status_message.lock().unwrap() = DriveStatus::Done
EngineSetDone(d) ==
    /\ status_guard[d] = "engine"
    /\ pc[d] = "set_done"
    /\ SetStatus(d, St("Done"))
    /\ Goto(d, "wait_removed")
    /\ DropGuard(d)
    /\ UNCHANGED <<has_disk, engineLocals, target, uiVars, cb_sink, files,
                   hist, pollerHist, outside>>

\* Fault injection: EngineWaitForRemoval with the test of has_disk inverted.
EngineWaitForRemovalInverted(d) ==
    /\ pc[d] = "wait_removed"
    /\ IF has_disk[d] THEN Goto(d, "start") ELSE UNCHANGED pc
    /\ UNCHANGED <<status_message, has_disk, engineLocals, target, uiVars,
                   cb_sink, files, hist, pollerHist, aside>>

\* while drive.has_disk.load(Relaxed) { sleep }; then the loop starts over
EngineWaitForRemoval(d) ==
    /\ pc[d] = "wait_removed"
    /\ IF has_disk[d] THEN UNCHANGED pc ELSE Goto(d, "start")
    /\ UNCHANGED <<status_message, has_disk, engineLocals, target, uiVars,
                   cb_sink, files, hist, pollerHist, aside>>

\* ------------------------------------------------------------ UI thread
\* The callbacks cursive runs on its own thread, one at a time.

\* The closure the engine sent through cb_sink: uncheck the ready box and
\* put the default name in the name field.
UiRunCallback ==
    /\ cb_sink # << >>
    /\ LET cb == Head(cb_sink)
       IN  /\ ready_checked' = [ready_checked EXCEPT ![cb.drive] = FALSE]
           /\ text_content' = [text_content EXCEPT ![cb.drive] = cb.default_iso_name]
    /\ cb_sink' = Tail(cb_sink)
    /\ UNCHANGED <<status_message, has_disk, pc, engineLocals, target, layers,
                   files, hist, pollerHist, aside>>

\* drive.status_message.lock().unwrap() in a callback of the UI thread: the
\* call returns once the engine does not hold the guard.  The UI thread runs
\* one callback at a time and none of them locks a second mutex.
UiLock(d) ==
    /\ status_guard[d] = "none"
    /\ \A e \in drives : status_guard[e] # "ui"
    /\ status_guard' = [status_guard EXCEPT ![d] = "ui"]
    /\ UNCHANGED <<status_message, has_disk, pc, engineLocals, target, uiVars,
                   cb_sink, files, hist, pollerHist, outside>>

\* Path::new(path).exists()
path_exists(path) == path \in files

\* Fault injection: the refresh callback without the Path::exists check.
UiRefreshNameSettingsNoExists(d) ==
    /\ status_guard[d] = "ui"
    /\ IF status_message[d].tag = "WaitingForName" /\ ready_checked[d]
       THEN SetStatus(d, Saving(text_content[d]))
       ELSE UNCHANGED status_message
    /\ DropGuard(d)
    /\ UNCHANGED <<has_disk, pc, engineLocals, target, uiVars, cb_sink, files,
                   hist, pollerHist, outside>>

\* Fault injection: the refresh callback acting on the ready box whatever the
\* status it finds.
UiRefreshNameSettingsAnyStatus(d) ==
    /\ status_guard[d] = "ui"
    /\ IF ready_checked[d]
       THEN LET path == text_content[d]
            IN  IF path_exists(path)
                THEN /\ layers' = Append(layers, [drive |-> d, path |-> path])
                     /\ SetStatus(d, St("ConfirmingName"))
                ELSE /\ SetStatus(d, Saving(path))
                     /\ UNCHANGED layers
       ELSE UNCHANGED <<status_message, layers>>
    /\ DropGuard(d)
    /\ UNCHANGED <<has_disk, pc, engineLocals, target, ready_checked,
                   text_content, cb_sink, files, hist, pollerHist, outside>>

\* The Event::Refresh callback of add_name_settings, run under the status lock.
UiRefreshNameSettings(d) ==
    /\ status_guard[d] = "ui"
    /\ IF status_message[d].tag = "WaitingForName" /\ ready_checked[d]
       THEN LET path == text_content[d]
            IN  IF path_exists(path)
                THEN /\ layers' = Append(layers, [drive |-> d, path |-> path])
                     /\ SetStatus(d, St("ConfirmingName"))
                ELSE /\ SetStatus(d, Saving(path))
                     /\ UNCHANGED layers
       ELSE UNCHANGED <<status_message, layers>>
    /\ DropGuard(d)
    /\ UNCHANGED <<has_disk, pc, engineLocals, target, ready_checked,
                   text_content, cb_sink, files, hist, pollerHist, outside>>

TopLayer == layers[Len(layers)]

PopLayer == layers' = SubSeq(layers, 1, Len(layers) - 1)

\* The "No" button of the overwrite dialog on top of the screen.
UiDialogNo ==
    /\ layers # << >>
    /\ status_guard[TopLayer.drive] = "ui"
    /\ PopLayer
    /\ ready_checked' = [ready_checked EXCEPT ![TopLayer.drive] = FALSE]
    /\ SetStatus(TopLayer.drive, St("WaitingForName"))
    /\ DropGuard(TopLayer.drive)
    /\ UNCHANGED <<has_disk, pc, engineLocals, target, text_content, cb_sink,
                   files, hist, pollerHist, outside>>

\* The "Yes" button of the overwrite dialog on top of the screen.
UiDialogYes ==
    /\ layers # << >>
    /\ status_guard[TopLayer.drive] = "ui"
    /\ PopLayer
    /\ SetStatus(TopLayer.drive, Saving(TopLayer.path))
    /\ SetHist(TopLayer.drive, [hist[TopLayer.drive] EXCEPT !.accepted = TRUE])
    /\ DropGuard(TopLayer.drive)
    /\ UNCHANGED <<has_disk, pc, engineLocals, target, ready_checked,
                   text_content, cb_sink, files, pollerHist, outside>>

\* The operator toggles a drive's ready box; the widgets of the main screen
\* take input only while no dialog covers them.
OperatorToggleReady(d) ==
    /\ layers = << >>
    /\ ready_checked' = [ready_checked EXCEPT ![d] = ~@]
    /\ SetHist(d, [hist[d] EXCEPT !.checked = @ \/ ~ready_checked[d]])
    /\ UNCHANGED <<status_message, has_disk, pc, engineLocals, target,
                   text_content, layers, cb_sink, files, pollerHist, aside>>

\* The operator types a name into a drive's name field.
OperatorEditName(d) ==
    /\ layers = << >>
    /\ \E n \in TypedNames : text_content' = [text_content EXCEPT ![d] = n]
    /\ UNCHANGED <<status_message, has_disk, pc, engineLocals, target,
                   ready_checked, layers, cb_sink, files, hist, pollerHist, aside>>

\* ------------------------------------------------------- presence poller

\* Fault injection: check_disks_in_drives setting has_disk but never
\* clearing it.
check_disks_in_drives_sticky(out, old) ==
    IF out.kind = "LaunchFail" THEN [ok |-> FALSE, err |-> "LaunchFail", has_disk |-> old]
    ELSE IF out.kind = "NotUtf8" THEN [ok |-> FALSE, err |-> "ConvertToUTF", has_disk |-> old]
    ELSE LET disks == parse_bulk_id_list(out.text)
         IN  [ok |-> TRUE,
              has_disk |-> [d \in DOMAIN old |->
                  old[d] \/ \E i \in 1..Len(disks) : starts_with(file(d), disks[i][1])]]

\* Fault injection: check_disks_in_drives reporting no disc anywhere when the
\* blkid command fails.
check_disks_in_drives_clears(out, old) ==
    IF out.kind = "LaunchFail"
    THEN [ok |-> FALSE, err |-> "LaunchFail", has_disk |-> [d \in DOMAIN old |-> FALSE]]
    ELSE IF out.kind = "NotUtf8"
    THEN [ok |-> FALSE, err |-> "ConvertToUTF", has_disk |-> [d \in DOMAIN old |-> FALSE]]
    ELSE LET disks == parse_bulk_id_list(out.text)
         IN  [ok |-> TRUE,
              has_disk |-> [d \in DOMAIN old |->
                  \E i \in 1..Len(disks) : starts_with(file(d), disks[i][1])]]

\* check_disks_in_drives applied to what the blkid command gave: whether it
\* returned Ok(()), and has_disk of every drive afterwards.
check_disks_in_drives(out, old) ==
    IF out.kind = "LaunchFail" THEN [ok |-> FALSE, err |-> "LaunchFail", has_disk |-> old]
    ELSE IF out.kind = "NotUtf8" THEN [ok |-> FALSE, err |-> "ConvertToUTF", has_disk |-> old]
    ELSE LET disks == parse_bulk_id_list(out.text)
         IN  [ok |-> TRUE,
              has_disk |-> [d \in DOMAIN old |->
                  \E i \in 1..Len(disks) : starts_with(file(d), disks[i][1])]]

\* One tick of the poller thread of build_main_menu.
PollerCheckDisks(outs) ==
    /\ \E o \in outs :
         LET r == check_disks_in_drives(o, has_disk)
         IN  /\ has_disk' = r.has_disk
             /\ last_poll' = IF r.ok THEN o ELSE last_poll
             /\ seen_disk' = [d \in drives |-> seen_disk[d] \/ r.has_disk[d]]
             /\ poll_result' = IF r.ok THEN "Ok" ELSE r.err
    /\ UNCHANGED <<status_message, pc, engineLocals, target, uiVars, cb_sink,
                   files, hist, aside>>

\* ---------------------------------------------------------- the system

Next ==
    \/ \E d \in drives : EngineLock(d)
    \/ \E d \in drives : EngineSetNoDisk(d)
    \/ \E d \in drives : EngineWaitForDisk(d)
    \/ \E d \in drives : EngineRunIsoinfo(d)
    \/ \E d \in drives : EngineFetchIsoInfo(d)
    \/ \E d \in drives : EngineSetCopying(d)
    \/ \E d \in drives : EngineSendReset(d)
    \/ \E d \in drives : EngineCreateTarget(d)
    \/ \E d \in drives : EngineOpenSource(d)
    \/ \E d \in drives : EngineCopy(d)
    \/ \E d \in drives : EngineSetWaitingForName(d)
    \/ \E d \in drives : EnginePollName(d)
    \/ \E d \in drives : EnginePersist(d)
    \/ \E d \in drives : EngineSetCopyError(d)
    \/ \E d \in drives : EngineEject(d)
    \/ \E d \in drives : EngineSetDone(d)
    \/ \E d \in drives : EngineWaitForRemoval(d)
    \/ UiRunCallback
    \/ \E d \in drives : UiLock(d)
    \/ \E d \in drives : UiRefreshNameSettings(d)
    \/ UiDialogNo
    \/ UiDialogYes
    \/ \E d \in drives : OperatorToggleReady(d)
    \/ \E d \in drives : OperatorEditName(d)
    \/ PollerCheckDisks(BlkidOutputs)

Spec == Init /\ [][Next]_vars

\* A step of the engine thread of drive d.
Engine(d) ==
    /\ d \in drives
    /\ \/ EngineLock(d)
       \/ EngineSetNoDisk(d)
       \/ EngineWaitForDisk(d)
       \/ EngineRunIsoinfo(d)
       \/ EngineFetchIsoInfo(d)
       \/ EngineSetCopying(d)
       \/ EngineSendReset(d)
       \/ EngineCreateTarget(d)
       \/ EngineOpenSource(d)
       \/ EngineCopy(d)
       \/ EngineSetWaitingForName(d)
       \/ EnginePollName(d)
       \/ EnginePersist(d)
       \/ EngineSetCopyError(d)
       \/ EngineEject(d)
       \/ EngineSetDone(d)
       \/ EngineWaitForRemoval(d)

\* The threads the operating system keeps scheduling: every engine thread
\* goes on with its loop, and the UI thread goes on running the callbacks it
\* was sent and the callback it has begun.  An engine blocked in lock() gets
\* the guard if the mutex keeps being released: the UI thread takes it for a
\* callback and then leaves it alone until the next event.  Nothing obliges
\* the operator to act or the discs to change.
Fairness ==
    /\ \A d \in AllDrives : WF_vars(Engine(d))
    /\ \A d \in AllDrives : SF_vars(d \in drives /\ EngineLock(d))
    /\ WF_vars(UiRunCallback)
    /\ WF_vars(\E d \in drives : UiRefreshNameSettings(d))

SpecLive == Spec /\ Fairness

\* The system with an operator who keeps the names the engines propose.
NextStatusMutex ==
    \/ \E d \in drives : Engine(d)
    \/ UiRunCallback
    \/ \E d \in drives : UiLock(d)
    \/ \E d \in drives : UiRefreshNameSettings(d)
    \/ UiDialogNo
    \/ UiDialogYes
    \/ \E d \in drives : OperatorToggleReady(d)
    \/ PollerCheckDisks(BlkidOutputs)

\* s.set_autorefresh(true): the refresh callbacks of every drive are run
\* again and again, and a callback blocked in lock() gets the guard if the
\* mutex keeps being released.
RefreshFairness == \A d \in AllDrives : SF_vars(d \in drives /\ UiLock(d))

SpecStatusMutex ==
    Init /\ [][NextStatusMutex]_vars /\ Fairness /\ RefreshFairness


\* Everything but the copier and the actuator buttons.
systemVars ==
    <<drives, status_message, has_disk, pc, output, info, name, target,
      ready_checked, text_content, layers, cb_sink, files, hist, last_poll,
      seen_disk, poll_result, status_guard, inventory>>

\* ------------------------------------------- the presence poller by itself

InitPresence ==
    /\ InitDrives(AllDrives)
    /\ inventory = InventoryDone
    /\ copier = IdleCopier
    /\ actuator = IdleActuator

NextPresence == PollerCheckDisks(BlkidTexts)

SpecPresence == InitPresence /\ [][NextPresence]_vars

\* ------------------------------------------- the Eject and Close buttons
\* add_drive_ui_buttons: a press runs eject_drive_disk or close_drive_disk on
\* the UI thread and raises a dialog with the outcome.

InitActuator ==
    /\ InitDrives({"sr0"})
    /\ inventory = InventoryDone
    /\ copier = IdleCopier
    /\ actuator \in { [pc |-> "idle", script |-> sc] : sc \in AttemptScripts }

ButtonPress(button, r, good, bad) ==
    actuator' = [pc |-> "dialog", script |-> actuator.script, button |-> button,
                 result |-> r.result, issued |-> r.issued,
                 text |-> IF r.result = Ok(TRUE) THEN good ELSE bad]

\* Button::new("Eject", ...)
UiEjectButton ==
    /\ actuator.pc = "idle"
    /\ ButtonPress("Eject", eject_drive_disk(actuator.script),
                   "Disk ejected.", "Failed to eject disk.")
    /\ UNCHANGED <<systemVars, copier>>

\* Button::new("Close", ...)
UiCloseButton ==
    /\ actuator.pc = "idle"
    /\ ButtonPress("Close", close_drive_disk(actuator.script),
                   "Disk drive closed.", "Failed to close disk drive.")
    /\ UNCHANGED <<systemVars, copier>>

\* The "Ok" button of the outcome dialog: s.pop_layer()
UiOutcomeOk ==
    /\ actuator.pc = "dialog"
    /\ actuator' = [pc |-> "idle", script |-> actuator.script]
    /\ UNCHANGED <<systemVars, copier>>

NextActuator == UiEjectButton \/ UiCloseButton \/ UiOutcomeOk

SpecActuator == InitActuator /\ [][NextActuator]_vars

\* ---------------------------------------------------- the streaming copier
\* copy_disk_to_iso, one step per read and per write_all.

Bytes == {"a", "b"}

MaxSourceLen == 3

MaxLength == 4

MaxBufferLen == 3

MaxInterrupts == 1

Sources == UNION { [1..n -> Bytes] : n \in 0..MaxSourceLen }

Min(a, b) == IF a <= b THEN a ELSE b

\* let mut buffer = vec![0; buffer_len]; let mut source = source.take(length)
InitCopy ==
    /\ InitDrives({"sr0"})
    /\ inventory = InventoryDone
    /\ actuator = IdleActuator
    /\ copier \in
         { [pc |-> "read", source |-> src, length |-> l, buffer_len |-> b,
            pos |-> 0, limit |-> l, chunk |-> << >>, sink |-> << >>,
            progress |-> << >>, result |-> "none", interrupts |-> 0] :
           src \in Sources, l \in 0..MaxLength, b \in 0..MaxBufferLen }

\* Most bytes the next read can return: Take caps the buffer at its limit,
\* and the source has Len(source) - pos bytes left.
ReadMax ==
    Min(Min(copier.buffer_len, copier.limit), Len(copier.source) - copier.pos)

\* Ok(0) => break: the limit is used up, the source is at its end, or the
\* buffer is empty
CopyReadEnd ==
    /\ copier.pc = "read"
    /\ ReadMax = 0
    /\ copier' = [copier EXCEPT !.pc = "done", !.result = "Ok"]
    /\ UNCHANGED <<systemVars, actuator>>

\* Fault injection: CopyReadChunk on the bare source, without take(length).
CopyReadChunkNoTake ==
    /\ copier.pc = "read"
    /\ \E n \in 1..ReadMax :
         copier' = [copier EXCEPT
                      !.pc = "write",
                      !.chunk = SubSeq(copier.source, copier.pos + 1, copier.pos + n),
                      !.pos = @ + n,
                      !.progress = Append(@, n)]
    /\ UNCHANGED <<systemVars, actuator>>

\* Ok(len) => { callback(len); len }: any 1..ReadMax bytes, in source order
CopyReadChunk ==
    /\ copier.pc = "read"
    /\ \E n \in 1..ReadMax :
         copier' = [copier EXCEPT
                      !.pc = "write",
                      !.chunk = SubSeq(copier.source, copier.pos + 1, copier.pos + n),
                      !.pos = @ + n,
                      !.limit = @ - n,
                      !.progress = Append(@, n)]
    /\ UNCHANGED <<systemVars, actuator>>

\* Fault injection: CopyReadInterrupted treating the interruption like any
\* other read failure.
CopyReadInterruptedFails ==
    /\ copier.pc = "read"
    /\ copier.interrupts < MaxInterrupts
    /\ copier' = [copier EXCEPT !.pc = "done", !.result = "Read",
                                !.interrupts = @ + 1]
    /\ UNCHANGED <<systemVars, actuator>>

\* Err(e) if e.kind() == Interrupted => continue
CopyReadInterrupted ==
    /\ copier.pc = "read"
    /\ copier.interrupts < MaxInterrupts
    /\ copier' = [copier EXCEPT !.interrupts = @ + 1]
    /\ UNCHANGED <<systemVars, actuator>>

\* Err(_) => return Err(CopyError::Read)
CopyReadError ==
    /\ copier.pc = "read"
    /\ copier' = [copier EXCEPT !.pc = "done", !.result = "Read"]
    /\ UNCHANGED <<systemVars, actuator>>

\* target.write_all(&buffer[..len]) succeeds
CopyWrite ==
    /\ copier.pc = "write"
    /\ copier' = [copier EXCEPT !.pc = "read", !.sink = @ \o copier.chunk,
                                !.chunk = << >>]
    /\ UNCHANGED <<systemVars, actuator>>

\* Fault injection: CopyWriteError with the error of write_all dropped, so that
\* the loop goes on to the next read.
CopyWriteErrorIgnored ==
    /\ copier.pc = "write"
    /\ \E k \in 0..(Len(copier.chunk) - 1) :
         copier' = [copier EXCEPT !.pc = "read",
                                  !.sink = @ \o SubSeq(copier.chunk, 1, k),
                                  !.chunk = << >>]
    /\ UNCHANGED <<systemVars, actuator>>

\* target.write_all(&buffer[..len]) fails, after writing less than the chunk:
\* map_err(|_| CopyError::Write)?
CopyWriteError ==
    /\ copier.pc = "write"
    /\ \E k \in 0..(Len(copier.chunk) - 1) :
         copier' = [copier EXCEPT !.pc = "done", !.result = "Write",
                                  !.sink = @ \o SubSeq(copier.chunk, 1, k),
                                  !.chunk = << >>]
    /\ UNCHANGED <<systemVars, actuator>>

NextCopy ==
    \/ CopyReadEnd
    \/ CopyReadChunk
    \/ CopyReadInterrupted
    \/ CopyReadError
    \/ CopyWrite
    \/ CopyWriteError

SpecCopy == InitCopy /\ [][NextCopy]_vars

\* The copier runs on its caller's thread, which keeps being scheduled.
SpecCopyLive == SpecCopy /\ WF_vars(NextCopy)

\* --------------------------------------------------- the startup inventory
\* main: list_disk_drives is called once, before any drive thread exists.

\* A line of lsscsi output: the bracketed id, the type token, the text up to
\* the first '/', and the text from that '/' up to the newline.
LsscsiLine(l) ==
    <<"[">> \o l.id \o <<"]", " ", " ">> \o l.type \o <<" ">> \o l.mid \o l.path \o <<NL>>

\* The well-formed lines an inventory is made of: two optical drives, a hard
\* disk, an optical drive whose path ends the line without a trailing space,
\* and an optical drive whose vendor text holds a '/'.
InventoryLines ==
    { [id |-> <<"0">>, type |-> CdDvd, mid |-> <<"H","L"," ">>,
       path |-> <<"/","d","e","v","/","s","r","0"," ">>],
      [id |-> <<"1">>, type |-> CdDvd, mid |-> <<"H","L"," ">>,
       path |-> <<"/","d","e","v","/","s","r","1"," ">>],
      [id |-> <<"2">>, type |-> <<"d","i","s","k">>, mid |-> <<"A"," ">>,
       path |-> <<"/","d","e","v","/","s","d","a"," ">>],
      [id |-> <<"3">>, type |-> CdDvd, mid |-> << >>,
       path |-> <<"/","d","e","v","/","s","r","0">>],
      [id |-> <<"4">>, type |-> CdDvd, mid |-> <<"A">>,
       path |-> <<"/","B"," ","/","d","e","v","/","s","r","1"," ">>] }

\* Most lines of an inventory.
MaxInventoryLines == 3

\* Texts without a single line of the expected shape: nothing, no bracket, no
\* closing bracket, no space after the type token, no '/', no newline.
ShapelessTexts ==
    { << >>,
      <<"j","u","n","k",NL>>,
      <<"[","0"," "," ">> \o CdDvd \o <<" ","/","x"," ",NL>>,
      <<"[","0","]">> \o CdDvd \o <<NL>>,
      <<"[","0","]"," ">> \o CdDvd \o <<" ","x",NL>>,
      <<"[","0","]"," ">> \o CdDvd \o <<" ","/","x"," ">> }

\* What the lsscsi command can give: a launch failure, an output that is not
\* UTF-8, a text of well-formed lines, a text without any.
InventoryInputs ==
    { [lines |-> << >>, out |-> o] : o \in {LaunchFailed, NotUtf8} } \cup
    { [lines |-> << >>, out |-> TextOut(t)] : t \in ShapelessTexts } \cup
    { [lines |-> ls, out |-> TextOut(Concat([i \in 1..Len(ls) |-> LsscsiLine(ls[i])]))] :
        ls \in UNION { [1..n -> InventoryLines] : n \in 1..MaxInventoryLines } }

InitInventory ==
    /\ InitDrives({})
    /\ inventory \in { [pc |-> "start", lines |-> i.lines, out |-> i.out] :
                         i \in InventoryInputs }
    /\ copier = IdleCopier
    /\ actuator = IdleActuator

\* let drives = list_disk_drives(); match drives { Ok(drives) => the intro
\* dialog, Err(error) => the failure dialog }
MainListDiskDrives ==
    /\ inventory.pc = "start"
    /\ LET r == list_disk_drives(inventory.out)
       IN  inventory' = [pc |-> IF r.kind = "Ok" THEN "intro" ELSE "failed",
                         lines |-> inventory.lines, out |-> inventory.out,
                         result |-> r]
    /\ UNCHANGED <<status_message, has_disk, pc, engineLocals, target, uiVars,
                   cb_sink, files, hist, pollerHist, status_guard, drives,
                   copier, actuator>>

NextInventory == MainListDiskDrives

SpecInventory == InitInventory /\ [][NextInventory]_vars

\* ------------------------------------------- two drives in the naming step
\* Two drives, each loaded with a disc of the same volume id, from the end of
\* their copies to Done: the discs stay in, the reset callbacks of the cycle
\* have run, and the working directory may hold a file of an earlier session.

CopiedHist ==
    [fetch |-> "Ok", copies |-> 1, copy |-> "Ok", renames |-> 0,
     renamed_to |-> << >>, ejects |-> 0, accepted |-> FALSE, checked |-> FALSE]

BothLoaded == TextOut(BlkidLine(file("sr0")) \o BlkidLine(file("sr1")))

InitNaming ==
    /\ drives = AllDrives
    /\ status_message = [d \in AllDrives |-> St("Copying")]
    /\ has_disk = [d \in AllDrives |-> TRUE]
    /\ pc = [d \in AllDrives |-> "set_waiting"]
    /\ output = [d \in AllDrives |-> NoOutput]
    /\ info = [d \in AllDrives |-> NoInfo]
    /\ name = [d \in AllDrives |-> << >>]
    /\ target = [d \in AllDrives |-> TRUE]
    /\ ready_checked = [d \in AllDrives |-> FALSE]
    /\ text_content = [d \in AllDrives |->
                         default_iso_name(IsoInfoOf[TextOut(IsoText(14, GoodL3, GoodL13, GoodL14))].info)]
    /\ layers = << >>
    /\ cb_sink = << >>
    /\ files \in SUBSET TypedNames
    /\ hist = [d \in AllDrives |-> CopiedHist]
    /\ last_poll = BothLoaded
    /\ seen_disk = [d \in AllDrives |-> TRUE]
    /\ poll_result = "Ok"
    /\ status_guard = [d \in AllDrives |-> "none"]
    /\ inventory = InventoryDone
    /\ copier = IdleCopier
    /\ actuator = IdleActuator

NextNaming ==
    \/ \E d \in drives : EngineLock(d)
    \/ \E d \in drives : EngineSetWaitingForName(d)
    \/ \E d \in drives : EnginePollName(d)
    \/ \E d \in drives : EnginePersist(d)
    \/ \E d \in drives : EngineSetDone(d)
    \/ \E d \in drives : UiLock(d)
    \/ \E d \in drives : UiRefreshNameSettings(d)
    \/ UiDialogNo
    \/ UiDialogYes
    \/ \E d \in drives : OperatorToggleReady(d)
    \/ \E d \in drives : OperatorEditName(d)

SpecNaming == InitNaming /\ [][NextNaming]_vars

\* ------------------------------------------------------------ the claims

Tag(d) == status_message[d].tag

\* The engine has finished copy_disk_to_iso in the current cycle.
AfterCopy(d) ==
    pc[d] \in {"set_waiting", "poll_name", "persist", "read_error",
               "write_error", "set_done", "wait_removed", "start"}

\* C1: in a cycle whose metadata fetch succeeded exactly one copy is started
\* (one once the copy step is passed, never more), at most one rename is
\* performed, and the rename targets the name of the Saving(name) status the
\* engine observed, however long the naming loop polled.
C1_OneCopyOneCommit ==
    \A d \in drives :
      /\ hist[d].copies <= 1
      /\ hist[d].renames <= 1
      /\ hist[d].fetch = "Ok" /\ AfterCopy(d) => hist[d].copies = 1
      /\ hist[d].renames = 1 => hist[d].fetch = "Ok" /\ hist[d].copy = "Ok"
      /\ pc[d] = "persist" => status_message[d] = Saving(name[d])
      /\ hist[d].renames = 1 /\ pc[d] = "set_done" =>
            /\ status_message[d] = Saving(hist[d].renamed_to)
            /\ hist[d].renamed_to \in files

C1_Witness ==
    \E d \in drives :
      /\ pc[d] = "wait_removed"
      /\ hist[d].copies = 1
      /\ hist[d].renames = 1
      /\ hist[d].renamed_to \in files

\* The edges of the transition table, with Setup -> NoDisk.
TableEdges ==
    { <<"Setup", "NoDisk">>,
      <<"NoDisk", "Copying">>, <<"NoDisk", "Done">>,
      <<"Copying", "WaitingForName">>, <<"Copying", "CopyReadError">>,
      <<"Copying", "CopyWriteError">>,
      <<"WaitingForName", "Saving">>, <<"WaitingForName", "ConfirmingName">>,
      <<"ConfirmingName", "WaitingForName">>, <<"ConfirmingName", "Saving">>,
      <<"Saving", "Done">>,
      <<"Done", "NoDisk">>, <<"CopyReadError", "NoDisk">>,
      <<"CopyWriteError", "NoDisk">> }

\* C2: every change of a drive's status follows an edge of the transition
\* table.
C2_StatusFollowsTable ==
    [][\A d \in drives :
         status_message'[d] # status_message[d] =>
           <<status_message[d].tag, status_message'[d].tag>> \in TableEdges]_vars

\* C3: after a copy that failed with a read (write) error the status is
\* CopyReadError (CopyWriteError) from the moment the engine has set it until
\* the engine has seen has_disk false and starts the next cycle, and the
\* engine keeps running.
C3_CopyErrorShownUntilRemoval ==
    \A d \in drives :
      /\ hist[d].copy = "Read" /\ pc[d] \in {"set_done", "wait_removed", "start"}
           => Tag(d) = "CopyReadError"
      /\ hist[d].copy = "Write" /\ pc[d] \in {"set_done", "wait_removed", "start"}
           => Tag(d) = "CopyWriteError"
      /\ hist[d].copy \in {"Read", "Write"} => pc[d] # "panicked"

\* The overwrite dialog of drive d is on top of the screen and this step
\* takes it off.
DialogPopped(d) ==
    /\ layers # << >>
    /\ TopLayer.drive = d
    /\ layers' = SubSeq(layers, 1, Len(layers) - 1)

\* C4: the status leaves WaitingForName only with the ready box checked, to
\* Saving(name) when the name in the field does not exist and to
\* ConfirmingName (with the dialog raised) when it does; it leaves
\* ConfirmingName only by a button of the drive's dialog: to Saving(path of
\* the dialog) by the accept, to WaitingForName by the decline.
C4_NamingTransitions ==
    [][\A d \in drives :
         /\ Tag(d) = "WaitingForName" /\ status_message'[d] # status_message[d] =>
              /\ ready_checked[d]
              /\ IF text_content[d] \in files
                 THEN /\ status_message'[d] = St("ConfirmingName")
                      /\ layers' = Append(layers, [drive |-> d, path |-> text_content[d]])
                 ELSE /\ status_message'[d] = Saving(text_content[d])
                      /\ layers' = layers
         /\ Tag(d) = "ConfirmingName" /\ status_message'[d] # status_message[d] =>
              /\ DialogPopped(d)
              /\ \/ /\ status_message'[d] = Saving(TopLayer.path)
                    /\ hist'[d].accepted /\ ~hist[d].accepted
                 \/ /\ status_message'[d] = St("WaitingForName")
                    /\ hist'[d].accepted = hist[d].accepted
                    /\ ~ready_checked'[d]
         /\ Tag(d) = "ConfirmingName" =>
              \E i \in 1..Len(layers) : layers[i].drive = d
      ]_vars

C4_Witness ==
    \E d \in drives :
      /\ Tag(d) = "Saving"
      /\ hist[d].accepted
      /\ status_message[d].name \in files

C6_NoDiscStaysNoDisk ==
    \A d \in drives :
      ~seen_disk[d] =>
        /\ ~has_disk[d]
        /\ pc[d] \in {"start", "wait_disk"}
        /\ Tag(d) = (IF pc[d] = "start" THEN "Setup" ELSE "NoDisk")
        /\ [hist[d] EXCEPT !.checked = FALSE] = NoHist
        /\ output[d] = NoOutput
        /\ ~target[d]

C6_Witness ==
    \E d \in drives :
      /\ ~seen_disk[d]
      /\ last_poll \in BlkidOutputs
      /\ pc[d] = "wait_disk"
      /\ Tag(d) = "NoDisk"


\* Positions of the newlines of a text, and its k-th newline-terminated line.
NewlinesOf(t) == { i \in 1..Len(t) : t[i] = NL }

NthNewline(t, k) ==
    CHOOSE i \in NewlinesOf(t) : Cardinality({ j \in NewlinesOf(t) : j <= i }) = k

LineOf(t, k) ==
    SubSeq(t, IF k = 1 THEN 1 ELSE NthNewline(t, k - 1) + 1, NthNewline(t, k) - 1)

HasPrefix(l, p) == Len(l) >= Len(p) /\ SubSeq(l, 1, Len(p)) = p

AfterPrefix(l, p) == SubSeq(l, Len(p) + 1, Len(l))

\* A non-negative integer in decimal, with or without a '+' before it.
IsNaturalText(r) ==
    \E k \in 0..1 :
      /\ k = 1 => Len(r) >= 1 /\ r[1] = "+"
      /\ Len(r) > k
      /\ \A i \in (k + 1)..Len(r) : r[i] \in Digits

TooFewLines(t) == Cardinality(NewlinesOf(t)) < IsoInfoLines

LacksPrefix(t) ==
    \/ ~HasPrefix(LineOf(t, VolumeIdLine), VolumeIdTag)
    \/ ~HasPrefix(LineOf(t, BlockSizeLine), BlockSizeTag)
    \/ ~HasPrefix(LineOf(t, VolumeSizeLine), VolumeSizeTag)

NonNumericField(t) ==
    \/ /\ HasPrefix(LineOf(t, BlockSizeLine), BlockSizeTag)
       /\ ~IsNaturalText(AfterPrefix(LineOf(t, BlockSizeLine), BlockSizeTag))
    \/ /\ HasPrefix(LineOf(t, VolumeSizeLine), VolumeSizeTag)
       /\ ~IsNaturalText(AfterPrefix(LineOf(t, VolumeSizeLine), VolumeSizeTag))

\* A metadata output with fewer than 14 newline-terminated lines, without a
\* required prefix, or with a field that is no non-negative integer.
Malformed(t) ==
    TooFewLines(t) \/ LacksPrefix(t) \/ NonNumericField(t)

\* C10: for every malformed metadata output the fetch returns the Parse
\* failure as an error value and the engine takes the metadata-failure path
\* (the eject), its thread still running.
C10_MalformedIsParseError ==
    [][\A d \in drives :
         /\ pc[d] = "parse"
         /\ pc'[d] # "parse"
         /\ output[d].kind = "Text"
         /\ Malformed(output[d].text)
         => /\ fetch_iso_info(output[d]) = Err("Parse")
            /\ pc'[d] = "eject"
            /\ hist'[d].fetch = "Err"
      ]_vars


RECURSIVE SumSeq(_)
SumSeq(q) == IF q = << >> THEN 0 ELSE Head(q) + SumSeq(Tail(q))

\* The bytes copy_disk_to_iso is to copy: min(length, source size).
Expected == Min(copier.length, Len(copier.source))

\* C7: with bufferSize > 0 and no read or write failure, every chunk passed
\* to onProgress is between 1 and bufferSize, the chunks never sum to more
\* than min(length, source size) (so the copy ends after at most that many
\* chunks and its finitely many interrupted reads), the sink always holds the
\* bytes of the source consumed so far, in order, and the copy ends with
\* success, the chunks summing to exactly min(length, source size) and the
\* sink holding exactly the first min(length, source size) bytes.
C7_CopyCopiesPrefix ==
    copier.pc # "idle" /\ copier.buffer_len > 0 /\ copier.result \in {"none", "Ok"} =>
      /\ \A i \in 1..Len(copier.progress) :
           copier.progress[i] >= 1 /\ copier.progress[i] <= copier.buffer_len
      /\ SumSeq(copier.progress) <= Expected
      /\ copier.sink \o copier.chunk = SubSeq(copier.source, 1, SumSeq(copier.progress))
      /\ copier.pc = "done" =>
           /\ copier.result = "Ok"
           /\ SumSeq(copier.progress) = Expected
           /\ copier.sink = SubSeq(copier.source, 1, Expected)
      /\ copier.pc = "read" /\ SumSeq(copier.progress) = Expected => ReadMax = 0

C7_Witness ==
    /\ copier.pc = "done"
    /\ copier.result = "Ok"
    /\ copier.interrupts > 0
    /\ Len(copier.progress) >= 2
    /\ Len(copier.source) > copier.length
    /\ copier.sink = SubSeq(copier.source, 1, copier.length)

\* C8: a press of Eject or Close issues its command at most 5 times, every
\* attempt before the last issued one ran and reported non-success, the call
\* returns Ok(true) iff the last issued attempt succeeded, Ok(false) iff all
\* 5 ran without success, and the launch error iff the last issued attempt
\* could not be launched.
C8_ActuatorRetries ==
    actuator.pc = "dialog" =>
      LET n == Len(actuator.issued)
          sc == actuator.script
      IN  /\ n >= 1 /\ n <= 5
          /\ \A i \in 1..n :
               actuator.issued[i] = (IF actuator.button = "Eject" THEN "eject" ELSE "eject -t")
          /\ \A i \in 1..(n - 1) : sc[i] = "failure"
          /\ n < 5 => sc[n] # "failure"
          /\ actuator.result = Ok(TRUE) <=> sc[n] = "success"
          /\ actuator.result = Ok(FALSE) <=> sc[n] = "failure"
          /\ actuator.result = Err("LaunchFail") <=> sc[n] = "launch_fail"
          /\ actuator.text \in {"Disk ejected.", "Disk drive closed."}
               <=> actuator.result = Ok(TRUE)

C8_Witness ==
    /\ actuator.pc = "dialog"
    /\ actuator.button = "Eject"
    /\ Len(actuator.issued) = 3
    /\ actuator.result = Ok(TRUE)
    /\ actuator.script[4] = "success"

\* C9: after a successful poll has_disk of every drive is true iff the path
\* of some pair of that poll's output is a prefix of the drive's path,
\* whatever has_disk was before.
C9_PresenceIsPrefixMatch ==
    last_poll # NoPoll =>
      LET disks == parse_bulk_id_list(last_poll.text)
      IN  \A d \in drives :
            has_disk[d] <=> \E i \in 1..Len(disks) : HasPrefix(file(d), disks[i][1])

C9_Witness ==
    \E d \in drives :
      /\ last_poll # NoPoll
      /\ Len(parse_bulk_id_list(last_poll.text)) = 2
      /\ seen_disk[d]
      /\ ~has_disk[d]

\* The handles the cd/dvd lines of an inventory stand for, in line order: the
\* path of each line without its last character, no disc, status Setup.
RECURSIVE ExpectedHandles(_)
ExpectedHandles(ls) ==
    IF ls = << >> THEN << >>
    ELSE (IF Head(ls).type = CdDvd
          THEN << [file |-> SubSeq(Head(ls).path, 1, Len(Head(ls).path) - 1),
                   has_disk |-> FALSE, status_message |-> St("Setup")] >>
          ELSE << >>) \o ExpectedHandles(Tail(ls))

\* C11: for a text made only of well-formed lines the inventory parser
\* returns one handle per cd/dvd line, in line order, each with the line's
\* captured path minus its last character, no disc and status Setup; a text
\* without any line of the expected shape gives an empty sequence and no error.
C11_InventoryHandles ==
    inventory.pc \in {"intro", "failed"} /\ inventory.out.kind = "Text" =>
      /\ inventory.result.kind = "Ok"
      /\ inventory.result.value = ExpectedHandles(inventory.lines)
      /\ Len(inventory.result.value) =
           Cardinality({ i \in 1..Len(inventory.lines) : inventory.lines[i].type = CdDvd })

\* Three lines, the middle one a hard disk, have given two handles.
C11_Witness ==
    /\ inventory.pc = "intro"
    /\ Len(inventory.lines) = 3
    /\ inventory.lines[2].type # CdDvd
    /\ Len(inventory.result.value) = 2
    /\ inventory.result.value[1].file # inventory.result.value[2].file

\* The bytes onProgress has been told of before its latest call.
ProgressBeforeLast ==
    SumSeq(SubSeq(copier.progress, 1, Len(copier.progress) - 1))

\* Within copy: a read is followed by onProgress(chunk size), then by the
\* write of that chunk, then by the next read.
CopyEventOrder ==
    /\ copier.pc = "read" =>
         /\ copier.chunk = << >>
         /\ Len(copier.sink) = SumSeq(copier.progress)
         /\ copier.pos = SumSeq(copier.progress)
    /\ copier.pc = "write" =>
         /\ copier.chunk # << >>
         /\ copier.progress # << >>
         /\ copier.progress[Len(copier.progress)] = Len(copier.chunk)
         /\ Len(copier.sink) = ProgressBeforeLast
         /\ copier.pos = SumSeq(copier.progress)
    /\ copier.pc = "done" /\ copier.result = "Write" =>
         /\ copier.progress # << >>
         /\ copier.pos = SumSeq(copier.progress)

\* C12 (as claimed): the events of copy are ordered read, onProgress, write,
\* next read; and when the k-th write fails copy returns Write at once, with
\* onProgress called k times and the sink holding exactly the first k-1 chunks.
C12_FailedWriteLeavesWholeChunks ==
    /\ CopyEventOrder
    /\ copier.pc = "done" /\ copier.result = "Write" =>
         copier.sink = SubSeq(copier.source, 1, ProgressBeforeLast)

\* C12 (amended): as above, but after the k-th write failed the sink holds the
\* first k-1 chunks followed by less than the whole of the k-th chunk.
C12_FailedWriteLeavesChunksAndPart ==
    /\ CopyEventOrder
    /\ copier.pc = "done" /\ copier.result = "Write" =>
         /\ Len(copier.sink) >= ProgressBeforeLast
         /\ Len(copier.sink) < SumSeq(copier.progress)
         /\ copier.sink = SubSeq(copier.source, 1, Len(copier.sink))

\* The second write failed after it had written a part of the second chunk.
C12_Witness ==
    /\ copier.pc = "done"
    /\ copier.result = "Write"
    /\ Len(copier.progress) = 2
    /\ Len(copier.sink) > copier.progress[1]

\* What a step of copy leaves alone when it neither calls back nor writes nor
\* moves in the source.
CopyUntouched ==
    /\ copier'.progress = copier.progress
    /\ copier'.sink = copier.sink
    /\ copier'.pos = copier.pos
    /\ copier'.limit = copier.limit
    /\ copier'.chunk = copier.chunk

\* C13: an interrupted read causes no onProgress call and no write and is
\* followed by another read at the same position; any other read failure makes
\* copy return Read at once, and nothing happens after copy has returned; with
\* finitely many interruptions copy terminates.
C13_InterruptedRetriedOthersFatal ==
    /\ [][/\ copier'.interrupts # copier.interrupts =>
               CopyUntouched /\ copier.pc = "read" /\ copier'.pc = "read"
          /\ copier'.result = "Read" /\ copier.result # "Read" =>
               CopyUntouched /\ copier.pc = "read" /\ copier'.pc = "done"
          /\ copier.pc # "done"]_vars
    /\ <>(copier.pc = "done")

\* A copy that was interrupted once has gone on and copied everything.
C13_Witness ==
    /\ copier.pc = "done"
    /\ copier.result = "Ok"
    /\ copier.interrupts = 1
    /\ Len(copier.sink) = 2
    /\ Len(copier.progress) = 2

\* C14: the engine thread of every drive is always still running its cycle,
\* also in the cycles (those whose metadata fetch succeeded) where the staged
\* file could not be created, the device could not be opened, or the rename
\* failed.
C14_EngineNeverStops ==
    \A d \in drives : hist[d].fetch = "Ok" => pc[d] # "panicked"

\* The names a status Saving(name) can carry.
SavingNames ==
    TypedNames \cup { << >> } \cup
    { default_iso_name(fetch_iso_info(o).info) :
        o \in { x \in IsoOutputs : fetch_iso_info(x).kind = "Ok" } }

\* C15: under fair scheduling, once the status is Saving(name) the engine
\* eventually renames the staged file to name and sets the status Done; and
\* when the engine is in its end-of-cycle wait and has_disk is false and stays
\* false, the engine eventually sets NoDisk and starts the next cycle.
C15_SavingCommitsAndWaitEnds ==
    \A d \in AllDrives :
      /\ \A n \in SavingNames :
           (d \in drives /\ status_message[d] = Saving(n))
             ~> (d \in drives /\ Tag(d) = "Done" /\ hist[d].renames = 1
                   /\ hist[d].renamed_to = n)
      /\ (d \in drives /\ pc[d] = "wait_removed" /\ ~has_disk[d])
           ~> (d \in drives /\ \/ Tag(d) = "NoDisk" /\ pc[d] = "wait_disk"
                               \/ pc[d] = "wait_removed" /\ has_disk[d])

\* The errors check_disks_in_drives can return.
PollFailures == {"LaunchFail", "ConvertToUTF", "Parse"}

C17_CallbackWritesOnlyFromWaiting ==
    /\ [][\A d \in drives :
            UiRefreshNameSettings(d) /\ status_message'[d] # status_message[d] =>
              /\ Tag(d) = "WaitingForName"
              /\ ready_checked[d]
              /\ \/ status_message'[d] = Saving(text_content[d])
                 \/ status_message'[d] = St("ConfirmingName")
              /\ \A e \in drives \ {d} : status_message'[e] = status_message[e]]_vars
    /\ [](\A d \in drives :
            /\ Tag(d) = "ConfirmingName" => pc[d] = "poll_name"
            /\ Tag(d) = "Saving" =>
                 pc[d] \in {"poll_name", "persist", "set_done", "panicked"})

\* The callback has written Saving and the engine has not read it yet.
C17_Witness ==
    \E d \in drives :
      /\ Tag(d) = "Saving"
      /\ pc[d] = "poll_name"
      /\ ready_checked[d]
      /\ status_message[d].name = text_content[d]

\* C18: a rename never replaces a file that exists at the moment of the rename
\* unless the operator accepted the overwrite for that drive in that cycle.
C18_NoSilentOverwrite ==
    [][\A d \in drives :
         hist'[d].renames = hist[d].renames + 1 /\ name[d] \in files =>
           hist[d].accepted]_vars

\* Whether a reset the engine of d sent to the UI has not been run yet.
ResetPending(d) == \E i \in 1..Len(cb_sink) : cb_sink[i].drive = d

\* C19: in every cycle the status leaves WaitingForName, to Saving or
\* ConfirmingName, only after the operator checked the ready box in that
\* cycle, the reset of the box sent on entering Copying having been applied.
C19_SaveNeedsFreshCheck ==
    [][\A d \in drives :
         Tag(d) = "WaitingForName"
           /\ status_message'[d].tag \in {"Saving", "ConfirmingName"} =>
             hist[d].checked /\ ~ResetPending(d)]_vars

\* C20 (as claimed): when the poller writes has_disk false during the
\* end-of-cycle wait and later true for good (the disc was taken out and
\* another one put in), the engine eventually returns to NoDisk and goes on
\* to the metadata fetch of a new cycle.
C20_SwapStartsNewCycle ==
    \A d \in AllDrives :
      <>[](d \in drives /\ has_disk[d]) =>
        /\ (d \in drives /\ pc[d] = "wait_removed" /\ Tag(d) = "Done" /\ ~has_disk[d])
             ~> (d \in drives /\ Tag(d) = "NoDisk" /\ pc[d] = "wait_disk")
        /\ (d \in drives /\ Tag(d) = "NoDisk" /\ pc[d] = "wait_disk")
             ~> (d \in drives /\ pc[d] = "fetch")

\* C20 (amended): has_disk false during the end-of-cycle wait leads to NoDisk
\* unless has_disk is true again before the engine has read it; and has_disk
\* true during the NoDisk wait leads to the metadata fetch unless has_disk is
\* false again before the engine has read it.
C20_LevelSeenStartsNewCycle ==
    \A d \in AllDrives :
      /\ (d \in drives /\ pc[d] = "wait_removed" /\ Tag(d) = "Done" /\ ~has_disk[d])
           ~> (d \in drives /\ \/ Tag(d) = "NoDisk" /\ pc[d] = "wait_disk"
                               \/ pc[d] = "wait_removed" /\ has_disk[d])
      /\ (d \in drives /\ pc[d] = "wait_disk" /\ Tag(d) = "NoDisk" /\ has_disk[d])
           ~> (d \in drives /\ \/ pc[d] = "fetch"
                               \/ pc[d] = "wait_disk" /\ ~has_disk[d])

\* After a cycle that committed an image, the engine is fetching the metadata
\* of the next disc.
C20_Witness ==
    \E d \in drives :
      /\ pc[d] = "fetch"
      /\ Tag(d) = "NoDisk"
      /\ has_disk[d]
      /\ files # {}

\* The statuses of a cycle between the metadata fetch and the commit.
BusyTags == {"Copying", "WaitingForName", "ConfirmingName", "Saving"}

\* C21: while the status is Copying, WaitingForName, ConfirmingName or Saving,
\* a change of has_disk changes neither the status, the engine's position,
\* the staged file nor what the cycle has done; the status leaves
\* WaitingForName only by the refresh callback with the ready box checked and
\* ConfirmingName only by a button of the drive's dialog; the staged file goes
\* only by the rename, a copy error or the end of the thread; and the engine
\* is never in one of its two waits on has_disk.
C21_PresenceIgnoredWhileBusy ==
    /\ [][\A d \in drives :
            Tag(d) \in BusyTags =>
              /\ has_disk'[d] # has_disk[d] =>
                   /\ status_message'[d] = status_message[d]
                   /\ pc'[d] = pc[d]
                   /\ target'[d] = target[d]
                   /\ hist'[d] = hist[d]
              /\ Tag(d) = "WaitingForName" /\ status_message'[d] # status_message[d] =>
                   /\ ready_checked[d]
                   /\ status_message'[d].tag \in {"Saving", "ConfirmingName"}
                   /\ pc'[d] = pc[d]
                   /\ has_disk' = has_disk
              /\ Tag(d) = "ConfirmingName" /\ status_message'[d] # status_message[d] =>
                   /\ DialogPopped(d)
                   /\ pc'[d] = pc[d]
                   /\ has_disk' = has_disk
              /\ target[d] /\ ~target'[d] =>
                   pc[d] \in {"persist", "read_error", "write_error", "open_source"}]_vars
    /\ [](\A d \in drives :
            Tag(d) \in BusyTags => pc[d] \notin {"start", "wait_disk", "wait_removed"})

\* The disc is out, and the drive still waits for its name with the staged
\* file in place.
C21_Witness ==
    \E d \in drives :
      /\ Tag(d) \in {"WaitingForName", "ConfirmingName"}
      /\ ~has_disk[d]
      /\ seen_disk[d]
      /\ target[d]
      /\ pc[d] = "poll_name"

EngineHolds(d) == status_guard[d] = "engine"

UiHolds(d) == status_guard[d] = "ui"

\* What only the engine thread of drive d changes.
EngineState(d) == <<pc[d], output[d], info[d], name[d], target[d]>>

\* C22: the engine holds a drive's status mutex only within one statement
\* that reads or writes the status, never across a sleep, the copy, the
\* metadata fetch, the eject or the rename: it holds the guard only where it
\* stands at such a statement, and its step with the guard held drops the
\* guard.  The UI thread holds one guard at a time.  So nobody keeps the mutex:
\* a guard the engine holds is dropped, a guard the UI holds is dropped, the
\* UI thread's callbacks get the guard again and again, and an engine that
\* stands at a lock of the status gets it.
C22_StatusMutexNeverKept ==
    /\ [](\A d \in drives : EngineHolds(d) => pc[d] \in LockPcs)
    /\ [](\A d, e \in drives : UiHolds(d) /\ UiHolds(e) => d = e)
    /\ [][\A d \in drives :
            EngineHolds(d) /\ EngineState(d)' # EngineState(d) =>
              status_guard'[d] = "none"]_vars
    /\ \A d \in AllDrives :
         /\ (d \in drives /\ EngineHolds(d)) ~> (d \in drives /\ ~EngineHolds(d))
         /\ (d \in drives /\ UiHolds(d)) ~> (d \in drives /\ ~UiHolds(d))
         /\ []<>(d \in drives => UiHolds(d))
         /\ (d \in drives /\ pc[d] \in LockPcs) ~> (d \in drives /\ EngineHolds(d))

\* The engine holds the guard for its poll of the naming loop while the
\* operator has checked the box: the refresh callback has to wait for it.
C22_Witness ==
    \E d \in drives :
      /\ EngineHolds(d)
      /\ pc[d] = "poll_name"
      /\ Tag(d) = "WaitingForName"
      /\ ready_checked[d]

====
